---- MODULE Spec2Model ----
(***************************************************************************)
(* MyPowerWatch (src/mypowerwatch.py): the per-tick power estimation, the  *)
(* aggregation of RunState (energy, bounded history, threshold alert) and  *)
(* the 1-second timer that drives update_display.                          *)
(*                                                                         *)
(* Units.  Python floats are modelled in exact fixed point:                *)
(*   power   : 1/WattScale watt (WattScale = 800, so that cores/8 and      *)
(*             percent/100 are exact),                                     *)
(*   usage   : percent (the source's fraction * 100),                      *)
(*   time    : whole seconds of time.time(),                               *)
(*   energy  : 1/(WattScale*3600) watt-hour, i.e. power unit * second.     *)
(* The wall clock is taken never to run backwards.                         *)
(***************************************************************************)
EXTENDS Integers, Sequences, FiniteSets, TLC

VARIABLES
  hardware_specs,      \* self.hardware_specs, built by _detect_hardware
  ohm_conn,            \* self.ohm_conn is not None
  has_nvidia_smi,      \* self.has_nvidia_smi
  start_time,          \* self.start_time
  last_update,         \* self.last_update
  total_power,         \* reactive total_power
  components,          \* reactive components
  run_time,            \* reactive run_time
  energy_consumption,  \* reactive energy_consumption
  power_history,       \* reactive power_history
  now,                 \* time.time()
  in_flight,           \* invocations of update_display that have not returned
  app_exit,            \* "none" while the app runs, "quit" after exit(), "error" after an unhandled exception
  timer_count,         \* the interval timer's count of periods
  keys,                \* key events queued for the event loop
  snapshot,            \* the readings the last call of update_power_consumption took
  calls,               \* calls of update_power_consumption
  tick_log,            \* per completed call: its current_time and its total power
  notify_calls,        \* calls of _show_windows_notification
  gpu_load_read_in,    \* the call (0: startup) in which hardware_specs.gpu.load was read
  gpu_read             \* the last GPU load read of update_display: what the sensor gave
                       \* to successive reads, and how many reads were made

vars == << hardware_specs, ohm_conn, has_nvidia_smi, start_time, last_update,
           total_power, components, run_time, energy_consumption, power_history,
           now, in_flight, app_exit, timer_count, keys,
           snapshot, calls, tick_log, notify_calls,
           gpu_load_read_in, gpu_read >>

----------------------------------------------------------------------------
(* Bounds of the model *)

MaxTime == 4
MaxTimeHistory == 62
MaxKeys == 1

(* Program constants *)

max_history_points == 60
retries == 3
timer_interval == 1
power_threshold == 200
battery_max_watts == 50

WattScale == 8 * 100
W(watts) == watts * WattScale

Min(a, b) == IF a <= b THEN a ELSE b

----------------------------------------------------------------------------
(* Hardware detection *)

_detect_cpu_info(name, cores) ==
  LET tdp == CASE name = "Intel i9" -> << 65, 250 >>
               [] name = "Intel i7" -> << 65, 200 >>
               [] name = "Intel i5" -> << 65, 150 >>
               [] name = "Intel i3" -> << 35, 110 >>
               [] name = "AMD Ryzen 9" -> << 105, 230 >>
               [] name = "AMD Ryzen 7" -> << 65, 180 >>
               [] name = "AMD Ryzen 5" -> << 65, 150 >>
               [] OTHER -> << 35, 95 >>
  IN [name |-> name, cores |-> cores, base_tdp |-> tdp[1], max_tdp |-> tdp[2]]

\* _detect_hardware runs before _init_windows_specific sets has_nvidia_smi, so
\* the read of self.has_nvidia_smi raises inside the try and the default is returned.
_detect_gpu_info ==
  [name |-> "Integrated GPU", load |-> 0, tdp |-> 15]

_estimate_battery_power(battery) ==
  IF ~battery.power_plugged
    THEN (battery.percent * battery_max_watts * WattScale) \div 100
    ELSE 0

_get_battery_info(battery) ==
  IF battery.present
    THEN [present |-> TRUE, percent |-> battery.percent,
          power_plugged |-> battery.power_plugged,
          power_consumption |-> _estimate_battery_power(battery)]
    ELSE [present |-> FALSE, percent |-> 0, power_plugged |-> TRUE,
          power_consumption |-> 0]

_detect_hardware(machine) ==
  [cpu |-> _detect_cpu_info(machine.cpu_name, machine.cores),
   gpu |-> _detect_gpu_info,
   ram |-> machine.ram,
   disks |-> machine.disks,
   temperatures |-> << >>,
   fan_speeds |-> << >>,
   display |-> 20,
   motherboard |-> 30,
   fans |-> 10,
   peripherals |-> 15,
   battery |-> _get_battery_info(machine.battery)]

NoBattery == [present |-> FALSE, percent |-> 0, power_plugged |-> TRUE]

Machines ==
  { [cpu_name |-> "Intel i7", cores |-> 8, ram |-> 16,
     disks |-> << [type |-> "SSD", size_gb |-> 500, used_gb |-> 250] >>,
     battery |-> NoBattery, ohm |-> TRUE, nvidia |-> TRUE],
    [cpu_name |-> "Intel i7", cores |-> 4, ram |-> 16,
     disks |-> << >>,
     battery |-> [present |-> TRUE, percent |-> 60, power_plugged |-> FALSE],
     ohm |-> FALSE, nvidia |-> FALSE],
    [cpu_name |-> "AMD Ryzen 9", cores |-> 16, ram |-> 16,
     disks |-> << [type |-> "HDD", size_gb |-> 1000, used_gb |-> 250] >>,
     battery |-> [present |-> TRUE, percent |-> 60, power_plugged |-> TRUE],
     ohm |-> FALSE, nvidia |-> TRUE],
    [cpu_name |-> "Intel i3", cores |-> 2, ram |-> 16,
     disks |-> << [type |-> "HDD", size_gb |-> 1000, used_gb |-> 500],
                  [type |-> "HDD", size_gb |-> 0, used_gb |-> 0] >>,
     battery |-> NoBattery, ohm |-> FALSE, nvidia |-> FALSE] }

----------------------------------------------------------------------------
(* Telemetry readings *)

CpuPercents == {50, 100}
RamPercents == {50}
GpuLoads == {0, 50}

\* what _get_gpu_load_win returns to `retries` successive calls: an idle GPU, a
\* transient zero followed by the real load, a busy GPU.  (_get_gpu_load_win
\* catches its own exceptions and returns 0.0, so no call raises.)
GpuReadings == { << 0, 0, 0 >>, << 0, 50, 50 >>, << 50, 50, 50 >> }
SteadyGpuReadings == << 50, 50, 50 >>

\* the number of reads _get_gpu_load_with_retry makes
RECURSIVE RetryReads(_, _)
RetryReads(readings, i) ==
  IF i >= retries THEN retries
  ELSE IF readings[i] > 0 THEN i
  ELSE RetryReads(readings, i + 1)

_get_gpu_load_with_retry(readings) ==
  LET last == RetryReads(readings, 1)
  IN IF readings[last] > 0 THEN readings[last] ELSE 0

\* update_display reads the load with one call of _get_gpu_load_win (line 501)
_get_gpu_load_win(readings) == readings[1]

NoReading == [k \in {} |-> 0]

\* _get_real_power_data: the dict it returns; empty when every source fails.
_get_real_power_data(ohm, nvidia) ==
  {NoReading}
    \cup (IF ohm THEN {("cpu" :> W(45)) @@ ("gpu" :> W(30))}
          ELSE IF nvidia THEN {"gpu" :> W(30)} ELSE {})

SteadyPowerData(ohm, nvidia) ==
  IF ohm THEN {("cpu" :> W(45)) @@ ("gpu" :> W(30))}
  ELSE IF nvidia THEN {"gpu" :> W(30)}
  ELSE {NoReading}

----------------------------------------------------------------------------
(* PowerModel: each operator returns << power, usage percent >> *)

\* mutant: the estimate is not scaled by the core count
_calculate_cpu_power_unscaled(specs, real_power, cpu_percent) ==
  IF "cpu" \in DOMAIN real_power
    THEN << real_power["cpu"], cpu_percent >>
    ELSE << (specs.cpu.base_tdp * 100
              + (specs.cpu.max_tdp - specs.cpu.base_tdp) * cpu_percent) * 8,
            cpu_percent >>

_calculate_cpu_power(specs, real_power, cpu_percent) ==
  IF "cpu" \in DOMAIN real_power
    THEN << real_power["cpu"], cpu_percent >>
    ELSE << (specs.cpu.base_tdp * 100
              + (specs.cpu.max_tdp - specs.cpu.base_tdp) * cpu_percent)
            * Min(8, specs.cpu.cores),
            cpu_percent >>

\* psutil.cpu_percent(interval=1) blocks for one second; cpu_percent() does not.
CpuSampleTime(real_power) ==
  IF "cpu" \in DOMAIN real_power THEN 0 ELSE 1

_calculate_gpu_power(specs, real_power) ==
  IF "gpu" \in DOMAIN real_power
    THEN << real_power["gpu"], specs.gpu.load >>
    ELSE IF specs.gpu.name # "Integrated GPU"
      THEN << specs.gpu.tdp * specs.gpu.load * 8, specs.gpu.load >>
      ELSE << 8 * (10 * 100 + 5 * specs.gpu.load), specs.gpu.load >>

DiskRaises(specs) ==
  \E i \in 1..Len(specs.disks) : specs.disks[i].size_gb = 0

RECURSIVE DiskPowerSum(_)
DiskPowerSum(disks) ==
  IF disks = << >> THEN 0
  ELSE LET disk == Head(disks)
           frac == (WattScale * disk.used_gb) \div disk.size_gb
       IN (IF disk.type = "SSD" THEN W(2) + 1 * frac ELSE W(5) + 3 * frac)
          + DiskPowerSum(Tail(disks))

RECURSIVE DiskUsageSum(_)
DiskUsageSum(disks) ==
  IF disks = << >> THEN 0
  ELSE (100 * Head(disks).used_gb) \div Head(disks).size_gb
       + DiskUsageSum(Tail(disks))

_calculate_disk_power(specs) ==
  << DiskPowerSum(specs.disks),
     IF specs.disks # << >>
       THEN DiskUsageSum(specs.disks) \div Len(specs.disks)
       ELSE 0 >>

_calculate_ram_power(specs, ram_percent) ==
  << 4 * (3 * 200 + specs.ram * ram_percent), ram_percent >>

ComponentNames ==
  {"CPU", "GPU", "RAM", "Disks", "Motherboard", "Fans", "Display", "Peripherals"}

MakeComponents(specs, cpu, gpu, disk, ram) ==
  [n \in ComponentNames |->
     CASE n = "CPU" -> [power |-> cpu[1], usage |-> cpu[2]]
       [] n = "GPU" -> [power |-> gpu[1], usage |-> gpu[2]]
       [] n = "RAM" -> [power |-> ram[1], usage |-> ram[2]]
       [] n = "Disks" -> [power |-> disk[1], usage |-> disk[2]]
       [] n = "Motherboard" -> [power |-> W(specs.motherboard), usage |-> 0]
       [] n = "Fans" -> [power |-> W(specs.fans), usage |-> 0]
       [] n = "Display" -> [power |-> W(specs.display), usage |-> 0]
       [] n = "Peripherals" -> [power |-> W(specs.peripherals), usage |-> 0]]

RECURSIVE SumPower(_, _)
SumPower(comps, names) ==
  IF names = {} THEN 0
  ELSE LET n == CHOOSE m \in names : TRUE
       IN comps[n].power + SumPower(comps, names \ {n})

----------------------------------------------------------------------------
(* Aggregator *)

\* mutant: the battery estimate never replaces the component sum
TotalPower_always_sum(specs, comps) ==
  SumPower(comps, DOMAIN comps)

TotalPower(specs, comps) ==
  IF specs.battery.present /\ ~specs.battery.power_plugged
    THEN specs.battery.power_consumption
    ELSE SumPower(comps, DOMAIN comps)

\* mutant: = instead of +=
IntegrateEnergy_overwrite(energy, power, time_elapsed) ==
  power * time_elapsed

\* mutant: the timer period is assumed instead of the measured time
IntegrateEnergy_fixed_period(energy, power, time_elapsed) ==
  energy + power * timer_interval

IntegrateEnergy(energy, power, time_elapsed) ==
  energy + power * time_elapsed

\* mutant: >= instead of >
AppendHistory_evicts_early(history, power) ==
  LET appended == Append(history, power)
  IN IF Len(appended) >= max_history_points THEN Tail(appended) ELSE appended

AppendHistory(history, power) ==
  LET appended == Append(history, power)
  IN IF Len(appended) > max_history_points THEN Tail(appended) ELSE appended

\* mutant: only the first crossing notifies
_check_power_threshold_once(current_power) ==
  IF current_power > W(power_threshold) /\ notify_calls = 0 THEN 1 ELSE 0

\* the number of calls of _show_windows_notification
_check_power_threshold(current_power) ==
  IF current_power > W(power_threshold) THEN 1 ELSE 0

----------------------------------------------------------------------------
(* Scheduler: the interval timer set in on_mount and the event loop *)

\* mutant: the callback yields to the event loop while it runs
LoopFree_reentrant == TRUE

\* update_display is a plain synchronous callback: while it runs, the event
\* loop runs nothing else.
LoopFree == in_flight = 0

NextTimer == start_time + (timer_count + 1) * timer_interval

TimerReady ==
  /\ LoopFree
  /\ app_exit = "none"
  /\ now >= NextTimer

\* after the callback returns the timer skips the periods that went by meanwhile
Reschedule(count, time) ==
  IF start_time + (count + 1) * timer_interval < time
    THEN (time - start_time) \div timer_interval
    ELSE count

QuitKeys == {"q", "ctrl+c"}
Keys == {"q", "ctrl+c", "h"}

Init ==
  /\ \E machine \in Machines :
       /\ hardware_specs = _detect_hardware(machine)
       /\ ohm_conn = machine.ohm
       /\ has_nvidia_smi = machine.nvidia
  /\ start_time = 0
  /\ last_update = 0
  /\ now = 0
  /\ total_power = 0
  /\ components = [n \in {} |-> 0]
  /\ run_time = 0
  /\ energy_consumption = 0
  /\ power_history = << >>
  /\ in_flight = 0
  /\ app_exit = "none"
  /\ timer_count = 0
  /\ keys = << >>
  /\ snapshot = [cpu_percent |-> 0, real_cpu |-> NoReading, gpu_load_from |-> 0]
  /\ calls = 0
  /\ tick_log = << >>
  /\ notify_calls = 0
  /\ gpu_load_read_in = 0
  /\ gpu_read = [sensor |-> << >>, reads |-> 0]

\* time.time() moves on; a timer that is due while the event loop is free fires
\* before the next second goes by
Advance(horizon) ==
  /\ now < horizon
  /\ ~TimerReady
  /\ now' = now + 1
  /\ UNCHANGED << hardware_specs, ohm_conn, has_nvidia_smi, start_time, last_update,
                  total_power, components, run_time, energy_consumption,
                  power_history, in_flight, app_exit, timer_count, keys,
                  snapshot, calls, tick_log, notify_calls,
                  gpu_load_read_in, gpu_read >>

\* The timer fires and calls update_display, whose first statement runs
\* update_power_consumption and stores what it returns (line 497).
update_power_consumption(horizon, cpu_percent, ram_percent, real1, real2) ==
  /\ TimerReady
  /\ now + CpuSampleTime(real1) <= horizon
  /\ LET current_time == now
         time_elapsed == current_time - last_update
         cpu == _calculate_cpu_power(hardware_specs, real1, cpu_percent)
         gpu == _calculate_gpu_power(hardware_specs, real2)
     IN /\ last_update' = current_time
        /\ now' = now + CpuSampleTime(real1)
        /\ timer_count' = timer_count + 1
        /\ calls' = calls + 1
        /\ snapshot' = [cpu_percent |-> cpu_percent, real_cpu |-> real1,
                        gpu_load_from |-> gpu_load_read_in]
        /\ IF DiskRaises(hardware_specs)
             THEN \* ZeroDivisionError leaves update_display; nothing catches it
                  /\ app_exit' = "error"
                  /\ UNCHANGED << total_power, components, run_time,
                                  energy_consumption, power_history, in_flight,
                                  tick_log, notify_calls >>
             ELSE LET disk == _calculate_disk_power(hardware_specs)
                      ram == _calculate_ram_power(hardware_specs, ram_percent)
                      comps == MakeComponents(hardware_specs, cpu, gpu, disk, ram)
                      total == TotalPower(hardware_specs, comps)
                      notified == _check_power_threshold(total)
                  IN /\ energy_consumption' =
                          IntegrateEnergy(energy_consumption, total, time_elapsed)
                     /\ run_time' = current_time - start_time
                     /\ power_history' = AppendHistory(power_history, total)
                     /\ notify_calls' = notify_calls + notified
                     /\ total_power' = total
                     /\ components' = comps
                     /\ tick_log' =
                          Append(tick_log, [time |-> current_time, power |-> total])
                     /\ in_flight' = in_flight + 1
                     /\ app_exit' = app_exit
  /\ UNCHANGED << hardware_specs, ohm_conn, has_nvidia_smi, start_time, keys,
                  gpu_load_read_in, gpu_read >>

\* mutant: the refresh rebuilds the whole GPU entry
RefreshGpuLoad_redetect(specs, load) ==
  [specs EXCEPT !.gpu = [name |-> "Integrated GPU", load |-> load, tdp |-> 150]]

RefreshGpuLoad(specs, load) ==
  [specs EXCEPT !.gpu.load = load]

\* The rest of update_display (lines 499-526) and the timer's rescheduling.
update_display(readings, real3) ==
  /\ in_flight >= 1
  /\ IF components["GPU"].usage = 0
       THEN LET refreshed ==
                  RefreshGpuLoad(hardware_specs, _get_gpu_load_win(readings))
            IN /\ hardware_specs' = refreshed
               /\ components' =
                    [components EXCEPT
                       !["GPU"].usage = _calculate_gpu_power(refreshed, real3)[2]]
               /\ gpu_load_read_in' = calls
               /\ gpu_read' = [sensor |-> readings, reads |-> 1]
       ELSE UNCHANGED << hardware_specs, components, gpu_load_read_in, gpu_read >>
  /\ in_flight' = in_flight - 1
  /\ timer_count' = Reschedule(timer_count, now)
  /\ UNCHANGED << ohm_conn, has_nvidia_smi, start_time, last_update, total_power,
                  run_time, energy_consumption, power_history, now, app_exit, keys,
                  snapshot, calls, tick_log, notify_calls >>

\* a key is pressed: the event waits until the event loop is free
KeyPress(k) ==
  /\ app_exit = "none"
  /\ Len(keys) < MaxKeys
  /\ keys' = Append(keys, k)
  /\ UNCHANGED << hardware_specs, ohm_conn, has_nvidia_smi, start_time, last_update,
                  total_power, components, run_time, energy_consumption,
                  power_history, now, in_flight, app_exit, timer_count,
                  snapshot, calls, tick_log, notify_calls,
                  gpu_load_read_in, gpu_read >>

\* mutant: the quit action does not call exit()
action_quit_ignored == "none"

action_quit == "quit"

\* BINDINGS and on_key: q and ctrl+c run action_quit, h shows the developer screen
on_key ==
  /\ LoopFree
  /\ app_exit = "none"
  /\ keys # << >>
  /\ keys' = Tail(keys)
  /\ app_exit' = IF Head(keys) \in QuitKeys THEN action_quit ELSE app_exit
  /\ UNCHANGED << hardware_specs, ohm_conn, has_nvidia_smi, start_time, last_update,
                  total_power, components, run_time, energy_consumption,
                  power_history, now, in_flight, timer_count, snapshot, calls,
                  tick_log, notify_calls,
                  gpu_load_read_in, gpu_read >>

Tick ==
  \E cpu_percent \in CpuPercents, ram_percent \in RamPercents :
    \* the two sensor reads of one tick see the same sensors
    \E real \in _get_real_power_data(ohm_conn, has_nvidia_smi) :
      update_power_consumption(MaxTime, cpu_percent, ram_percent, real, real)

Publish ==
  \E readings \in GpuReadings,
     real3 \in _get_real_power_data(ohm_conn, has_nvidia_smi) :
    update_display(readings, real3)

Next ==
  \/ Advance(MaxTime)
  \/ Tick
  \/ Publish
  \/ \E k \in Keys : KeyPress(k)
  \/ on_key

Spec == Init /\ [][Next]_vars

----------------------------------------------------------------------------
(* Long steady runs: the same machine under a constant load, ticks on      *)
(* schedule, enough of them to fill the history.                           *)

AdvanceIdle ==
  /\ LoopFree
  /\ Advance(MaxTimeHistory)

TickSteady ==
  \E real \in SteadyPowerData(ohm_conn, has_nvidia_smi) :
    update_power_consumption(MaxTimeHistory, 50, 50, real, real)

PublishSteady ==
  \E real \in SteadyPowerData(ohm_conn, has_nvidia_smi) :
    update_display(SteadyGpuReadings, real)

NextHistory ==
  \/ AdvanceIdle
  \/ TickSteady
  \/ PublishSteady
  \/ \E k \in Keys : KeyPress(k)
  \/ on_key

SpecHistory == Init /\ [][NextHistory]_vars

(* The event loop runs a callback that has started to its end and handles  *)
(* every queued key event.                                                 *)
LiveSpec == Spec /\ WF_vars(Publish) /\ WF_vars(on_key)

----------------------------------------------------------------------------
(* State predicates used below *)

Ticks == Len(tick_log)

OnBattery ==
  hardware_specs.battery.present /\ ~hardware_specs.battery.power_plugged

QuitPending == \E i \in 1..Len(keys) : keys[i] \in QuitKeys

Terminated == app_exit # "none"

RECURSIVE EnergyOfLog(_, _)
EnergyOfLog(log, previous_time) ==
  IF log = << >> THEN 0
  ELSE Head(log).power * (Head(log).time - previous_time)
       + EnergyOfLog(Tail(log), Head(log).time)

----------------------------------------------------------------------------
(* C1: after n ticks (calls of update_power_consumption that returned) the *)
(* power history holds at most 60 samples, exactly min(60, n) of them.     *)
HistoryLengthIsMin60 ==
  /\ Len(power_history) <= 60
  /\ Len(power_history) = Min(60, Ticks)

HistoryHasEvicted ==
  /\ Ticks = 61
  /\ Len(power_history) = 60

(* C2: energy_consumption never decreases from one tick to the next.       *)
EnergyNonDecreasing ==
  [][energy_consumption' >= energy_consumption]_vars

EnergyGrewWhilePowerFell ==
  /\ Ticks >= 2
  /\ tick_log[2].power < tick_log[1].power
  /\ tick_log[2].power >= 0
  /\ energy_consumption > tick_log[1].power * tick_log[1].time

(* C3: on battery (battery present, not plugged in) the total power of a   *)
(* tick is percent/100 * 50 W, 30 W at 60 percent, whatever the components *)
(* draw; otherwise it is the sum of the power of the eight components.     *)
TotalPowerRule ==
  Ticks > 0 =>
    IF OnBattery
      THEN /\ 100 * total_power = hardware_specs.battery.percent * 50 * WattScale
           /\ hardware_specs.battery.percent = 60 => total_power = W(30)
      ELSE total_power =
             components["CPU"].power + components["GPU"].power
             + components["RAM"].power + components["Disks"].power
             + components["Motherboard"].power + components["Fans"].power
             + components["Display"].power + components["Peripherals"].power

BatteryOverridesComponentSum ==
  /\ Ticks > 0
  /\ OnBattery
  /\ hardware_specs.battery.percent = 60
  /\ total_power = W(30)
  /\ SumPower(components, ComponentNames) > W(30)

(* C4: a tick whose total power is above 200 W makes exactly one           *)
(* notification call, whether or not the tick before notified; a tick at   *)
(* or below 200 W makes none, and nothing else notifies.                   *)
ThresholdNotifiesEveryTick ==
  [][IF tick_log' # tick_log
       THEN notify_calls' =
              notify_calls + (IF total_power' > W(200) THEN 1 ELSE 0)
       ELSE notify_calls' = notify_calls]_vars

NotifiedTwiceInARow ==
  /\ Ticks = 2
  /\ tick_log[1].power > W(200)
  /\ tick_log[2].power > W(200)
  /\ notify_calls = 2

TickFailureSwallowed ==
  app_exit # "error"

(* C7 as stated: no step changes hardware_specs.                           *)
HardwareProfileNeverModified ==
  [][hardware_specs' = hardware_specs]_vars

(* C7 as amended: no step changes any field of hardware_specs other than   *)
(* the GPU load, which update_display overwrites with a fresh reading when *)
(* the tick reported a GPU usage of 0.                                     *)
HardwareProfileFrozenExceptGpuLoad ==
  [][/\ [hardware_specs' EXCEPT !.gpu.load = 0]
          = [hardware_specs EXCEPT !.gpu.load = 0]
     /\ hardware_specs'.gpu.load # hardware_specs.gpu.load
          => (in_flight' < in_flight /\ components["GPU"].usage = 0)]_vars

GpuLoadRefreshed ==
  /\ Ticks > 0
  /\ hardware_specs.gpu.load # 0

(* C8: after quit no new tick starts, a tick in flight when the quit key   *)
(* arrives is not aborted and runs to its end, and the scheduler reaches   *)
(* Terminated and stays there.                                             *)
QuitStopsScheduling ==
  /\ [][Terminated => (calls' = calls /\ Terminated')]_vars
  /\ [][in_flight > 0 => (app_exit' = "none" /\ in_flight' >= in_flight - 1)]_vars
  /\ (in_flight > 0) ~> (in_flight = 0)
  /\ QuitPending ~> Terminated

QuitWithTimerDue ==
  /\ app_exit = "quit"
  /\ Ticks > 0
  /\ now >= NextTimer

(* C9: without a CPU sensor wattage the CPU power of a tick is             *)
(* (base_tdp + (max_tdp - base_tdp) * usage) * min(1, cores/8): 132.5 W    *)
(* for 65/200, 8 cores, usage 0.5 and 100 W for 65/200, 4 cores, usage 1;  *)
(* with a sensor wattage the CPU power is that wattage.                    *)
CpuPowerFormula ==
  Ticks > 0 =>
    LET cpu == hardware_specs.cpu
        power == components["CPU"].power
        usage == snapshot.cpu_percent
    IN IF "cpu" \in DOMAIN snapshot.real_cpu
         THEN power = snapshot.real_cpu["cpu"]
         ELSE /\ 8 * 100 * power =
                   WattScale * (cpu.base_tdp * 100
                                + (cpu.max_tdp - cpu.base_tdp) * usage)
                     * Min(8, cpu.cores)
              /\ (cpu.base_tdp = 65 /\ cpu.max_tdp = 200 /\ cpu.cores = 8 /\ usage = 50)
                   => 10 * power = 1325 * WattScale
              /\ (cpu.base_tdp = 65 /\ cpu.max_tdp = 200 /\ cpu.cores = 4 /\ usage = 100)
                   => power = W(100)

FourCoresFullLoadEstimated ==
  /\ Ticks > 0
  /\ "cpu" \notin DOMAIN snapshot.real_cpu
  /\ hardware_specs.cpu.cores = 4
  /\ snapshot.cpu_percent = 100
  /\ components["CPU"].power = W(100)

(* C10: energy_consumption is the sum over the ticks of the tick's total   *)
(* power times the time since the tick before (since construction for the  *)
(* first tick), whatever the time between the ticks was.                   *)
EnergyIsSumOverTicks ==
  energy_consumption = EnergyOfLog(tick_log, start_time)

EnergyAfterLateTick ==
  /\ Ticks >= 2
  /\ tick_log[2].time - tick_log[1].time >= 2
  /\ tick_log[2].power > 0
  /\ energy_consumption > 0

(* C11 as stated: the GPU load from which a tick computes the GPU power    *)
(* and usage was read during that same tick, not at startup and not in an  *)
(* earlier tick.                                                           *)
GpuLoadReadInSameTick ==
  Ticks > 0 => snapshot.gpu_load_from = calls

(* C12 as stated: the GPU load read of a tick goes through the retry       *)
(* wrapper: the read is repeated until it gives a non-zero load or 3 reads *)
(* were made, and the load the tick keeps is the first non-zero reading,   *)
(* or 0 when all 3 readings were 0.                                        *)
GpuLoadReadThroughRetry ==
  gpu_read.reads > 0 =>
    /\ gpu_read.reads <= 3
    /\ gpu_read.reads = RetryReads(gpu_read.sensor, 1)
    /\ hardware_specs.gpu.load = _get_gpu_load_with_retry(gpu_read.sensor)

====
